---- MODULE Spec2Model ----
(***************************************************************************)
(* Model of the Keycloak OAuth2 driver (src/src/Keycloak/index.ts) and of  *)
(* its registration provider (src/unnamed/part_000).                       *)
(*                                                                         *)
(* JavaScript strings are sequences of one-character strings, so that      *)
(* String.prototype.replace and template literals are computed, not        *)
(* assumed.  A JavaScript value is a record [k |-> kind, v |-> chars].     *)
(***************************************************************************)
EXTENDS Integers, Sequences, FiniteSets, TLC

VARIABLES config, input, cookie, cookieReads, cookieClears, extended, driver, calls, last

vars == <<config, input, cookie, cookieReads, cookieClears, extended, driver, calls, last>>

(* Number of method calls made on one driver instance. *)
MaxCalls == 1

-----------------------------------------------------------------------------
(* JavaScript values *)

Undefined == [k |-> "undefined", v |-> <<>>]
Str(s) == [k |-> "string", v |-> s]
Bool(b) == [k |-> "boolean", v |-> IF b THEN <<"true">> ELSE <<"false">>]

(* ToBoolean: undefined, '' and false are falsy, everything else truthy *)
Truthy(x) ==
  CASE x.k = "undefined" -> FALSE
    [] x.k = "string" -> x.v # <<>>
    [] x.k = "boolean" -> x.v = <<"true">>
    [] OTHER -> TRUE

(* a ?? b : b only when a is undefined (or null) *)
Nullish(a, b) == IF a.k = "undefined" THEN b ELSE a

-----------------------------------------------------------------------------
(* Strings *)

RealmPlaceholder == <<"{", "{", "r", "e", "a", "l", "m", "}", "}">>
ActionPlaceholder == <<"{", "{", "a", "c", "t", "i", "o", "n", "}", "}">>
AuthAction == <<"a", "u", "t", "h">>
TokenAction == <<"t", "o", "k", "e", "n">>
UserInfoAction == <<"u", "s", "e", "r", "i", "n", "f", "o">>
BearerPrefix == <<"B", "e", "a", "r", "e", "r", " ">>
ApplicationJson == <<"a", "p", "p", "l", "i", "c", "a", "t", "i", "o", "n", "/", "j", "s", "o", "n">>
UserDenied == <<"u", "s", "e", "r", "_", "d", "e", "n", "i", "e", "d">>

StartsAt(s, pat, i) ==
  /\ i >= 1
  /\ i + Len(pat) - 1 <= Len(s)
  /\ \A j \in 1..Len(pat) : s[i + j - 1] = pat[j]

(* 1-based position of the first occurrence of pat in s, 0 when there is none *)
IndexOf(s, pat) ==
  IF \E i \in 1..(Len(s) + 1) : StartsAt(s, pat, i)
  THEN CHOOSE i \in 1..(Len(s) + 1) :
         StartsAt(s, pat, i) /\ \A j \in 1..(i - 1) : ~StartsAt(s, pat, j)
  ELSE 0

Contains(s, pat) == IndexOf(s, pat) # 0

RECURSIVE ExpandReplacement(_, _, _, _)
(* The replacement patterns of String.prototype.replace with a string
   pattern: $$ is a dollar, $& the match, $` the text before the match,
   $' the text after it; any other character stands for itself. *)
ExpandReplacement(repl, matched, before, after) ==
  IF repl = <<>> THEN <<>>
  ELSE IF Head(repl) = "$" /\ Len(repl) >= 2 /\ repl[2] \in {"$", "&", "`", "'"}
    THEN (CASE repl[2] = "$" -> <<"$">>
            [] repl[2] = "&" -> matched
            [] repl[2] = "`" -> before
            [] repl[2] = "'" -> after)
         \o ExpandReplacement(SubSeq(repl, 3, Len(repl)), matched, before, after)
    ELSE <<Head(repl)>> \o ExpandReplacement(Tail(repl), matched, before, after)

(* s.replace(pat, repl) with a string pattern: the first occurrence only *)
StringReplace(s, pat, repl) ==
  LET i == IndexOf(s, pat) IN
  IF i = 0 THEN s
  ELSE LET before == SubSeq(s, 1, i - 1)
           after == SubSeq(s, i + Len(pat), Len(s))
       IN before \o ExpandReplacement(repl, pat, before, after) \o after

-----------------------------------------------------------------------------
(* Configurations (KeycloakConfig) *)

PlainRealm == <<"r", "1">>
DollarRealm == <<"a", "$", "&", "b">>
BraceRealm == ActionPlaceholder
Realms == {Undefined, Str(<<>>), Str(PlainRealm), Str(DollarRealm), Str(BraceRealm)}

(* h/{{realm}}/p/{{action}} *)
PlainTemplate == <<"h", "/">> \o RealmPlaceholder \o <<"/", "p", "/">> \o ActionPlaceholder
(* {{realm}}.h/{{realm}}/{{action}} *)
TwiceTemplate == RealmPlaceholder \o <<".", "h", "/">> \o RealmPlaceholder \o <<"/">> \o ActionPlaceholder
KeycloakUrls == {Undefined, Str(<<>>), Str(PlainTemplate), Str(TwiceTemplate)}

OverrideUrl == <<"o">>
Overrides ==
  { [authorizeUrl |-> Undefined, accessTokenUrl |-> Undefined, userInfoUrl |-> Undefined],
    [authorizeUrl |-> Str(OverrideUrl), accessTokenUrl |-> Str(OverrideUrl), userInfoUrl |-> Undefined],
    [authorizeUrl |-> Undefined, accessTokenUrl |-> Undefined, userInfoUrl |-> Str(OverrideUrl)],
    [authorizeUrl |-> Undefined, accessTokenUrl |-> Undefined, userInfoUrl |-> Str(<<>>)] }

KeycloakConfig ==
  { [realm |-> r, keycloakUrl |-> u, authorizeUrl |-> o.authorizeUrl,
     accessTokenUrl |-> o.accessTokenUrl, userInfoUrl |-> o.userInfoUrl] :
    r \in Realms, u \in KeycloakUrls, o \in Overrides }

(* values of the request's "error" input *)
ErrorInputs ==
  { Undefined, Str(UserDenied), Str(<<"U", "S", "E", "R", "_", "D", "E", "N", "I", "E", "D">>) }

(* the state cookie set by the redirect request, "none" when there is none *)
Cookies == {"none", "s1"}

-----------------------------------------------------------------------------
(* Construction *)

RealmError == "Keycloak driver needs the \"realm\" to be defined"
KeycloakUrlError == "Keycloak driver needs the \"keycloakUrl\" to be defined"

(* buildKeycloakUrl: two chained first-occurrence replacements *)
buildKeycloakUrl(cfg, action) ==
  StringReplace(StringReplace(cfg.keycloakUrl.v, RealmPlaceholder, cfg.realm.v),
                ActionPlaceholder, action)

(* loadState of the base driver: read the state cookie, then clear it *)
loadState(ck) ==
  [stateCookieValue |-> ck, cookie |-> "none", reads |-> 1, clears |-> 1,
   log |-> <<<<"readCookie">>, <<"clearCookie">>>>]

NoDriver ==
  [status |-> "none", error |-> "", authorizeUrl |-> <<>>, accessTokenUrl |-> <<>>,
   userInfoUrl |-> <<>>, stateCookieValue |-> "none", log |-> <<>>,
   cookie |-> "none", reads |-> 0, clears |-> 0]

(* the constructor throws: no instance, the state cookie ck untouched *)
Thrown(message, ck) ==
  [NoDriver EXCEPT !.status = "failed", !.error = message, !.log = <<<<"super">>>>,
                   !.cookie = ck]

(* the constructor's tail: the three URL assignments, then loadState *)
Built(cfg, ck) ==
  LET st == loadState(ck) IN
  [status |-> "constructed", error |-> "",
   authorizeUrl |-> buildKeycloakUrl(cfg, AuthAction),
   accessTokenUrl |-> buildKeycloakUrl(cfg, TokenAction),
   userInfoUrl |-> buildKeycloakUrl(cfg, UserInfoAction),
   stateCookieValue |-> st.stateCookieValue,
   log |-> <<<<"super">>, <<"authorizeUrl">>, <<"accessTokenUrl">>, <<"userInfoUrl">>>>
           \o st.log,
   cookie |-> st.cookie, reads |-> st.reads, clears |-> st.clears]

(* slip: keycloakUrl validated before realm *)
KeycloakDriver_urlFirst(cfg, ck) ==
  IF ~Truthy(cfg.keycloakUrl) THEN Thrown(KeycloakUrlError, ck)
  ELSE IF ~Truthy(cfg.realm) THEN Thrown(RealmError, ck)
  ELSE Built(cfg, ck)

(* slip: the URL fields take the configured overrides *)
KeycloakDriver_overrides(cfg, ck) ==
  IF ~Truthy(cfg.realm) THEN Thrown(RealmError, ck)
  ELSE IF ~Truthy(cfg.keycloakUrl) THEN Thrown(KeycloakUrlError, ck)
  ELSE [Built(cfg, ck) EXCEPT
          !.authorizeUrl = Nullish(cfg.authorizeUrl, Str(@)).v,
          !.accessTokenUrl = Nullish(cfg.accessTokenUrl, Str(@)).v,
          !.userInfoUrl = Nullish(cfg.userInfoUrl, Str(@)).v]

(* slip: loadState called before the configuration is validated *)
KeycloakDriver_loadFirst(cfg, ck) ==
  LET st == loadState(ck) IN
  IF ~Truthy(cfg.realm)
  THEN [Thrown(RealmError, ck) EXCEPT !.cookie = st.cookie, !.reads = st.reads,
                                      !.clears = st.clears, !.log = @ \o st.log]
  ELSE IF ~Truthy(cfg.keycloakUrl)
  THEN [Thrown(KeycloakUrlError, ck) EXCEPT !.cookie = st.cookie, !.reads = st.reads,
                                            !.clears = st.clears, !.log = @ \o st.log]
  ELSE Built(cfg, ck)

(* new KeycloakDriver(ctx, config): the instance, or the error thrown,
   together with what the constructor did to the state cookie ck *)
KeycloakDriver(cfg, ck) ==
  IF ~Truthy(cfg.realm) THEN Thrown(RealmError, ck)
  ELSE IF ~Truthy(cfg.keycloakUrl) THEN Thrown(KeycloakUrlError, ck)
  ELSE Built(cfg, ck)

-----------------------------------------------------------------------------
(* The user-info request *)

HeaderNames == {"Authorization", "Accept", "X-Custom"}

(* this.httpClient(url): a fresh request, nothing set *)
httpClient(url) ==
  [url |-> url, headers |-> [h \in HeaderNames |-> Undefined], parse |-> "unset", log |-> <<>>]

(* request.header(key, value): the last value set for a key is kept *)
header(req, key, value) ==
  [req EXCEPT !.headers[key] = Str(value), !.log = Append(@, <<"header", key>>)]

parseAs(req, type) == [req EXCEPT !.parse = type, !.log = Append(@, <<"parseAs", type>>)]

(* slip: the Accept header is left out *)
getAuthenticatedRequest_noAccept(url, token) ==
  parseAs(header(httpClient(url), "Authorization", BearerPrefix \o token), "json")

(* getAuthenticatedRequest(url, token) *)
getAuthenticatedRequest(url, token) ==
  parseAs(header(header(httpClient(url), "Authorization", BearerPrefix \o token),
                 "Accept", ApplicationJson),
          "json")

(* Request customizers: no customizer (undefined), a function that makes a
   sequence of header calls on the request, or a function that throws. *)
SetAuthorization == [key |-> "Authorization", value |-> <<"B", "a", "s", "i", "c", " ", "x">>]
SetAccept == [key |-> "Accept", value |-> <<"t", "e", "x", "t", "/", "x", "m", "l">>]
SetCustom == [key |-> "X-Custom", value |-> <<"1">>]

OpSeqs == {<<SetCustom>>, <<SetAuthorization>>, <<SetAccept, SetAuthorization>>}

NoCallback == [k |-> "undefined", ops |-> <<>>, throws |-> FALSE]
Callbacks ==
  {NoCallback}
    \cup { [k |-> "function", ops |-> o, throws |-> FALSE] : o \in OpSeqs }
    \cup { [k |-> "function", ops |-> <<>>, throws |-> TRUE] }

RECURSIVE RunOps(_, _)
RunOps(req, ops) ==
  IF ops = <<>> THEN req
  ELSE RunOps(header(req, Head(ops).key, Head(ops).value), Tail(ops))

(* callback(request) *)
Invoke(cb, req) == RunOps([req EXCEPT !.log = Append(@, <<"callback">>)], cb.ops)

(* request.get(): the request leaves as it then stands *)
Send(req) == [req EXCEPT !.log = Append(@, <<"get">>)]

-----------------------------------------------------------------------------
(* User-info payloads and the record built from them *)

EmailVerifiedValues ==
  {Bool(TRUE), Bool(FALSE), Undefined, Str(<<"f", "a", "l", "s", "e">>)}

FullPayload(ev) ==
  [sub |-> Str(<<"u", "1">>), preferred_username |-> Str(<<"b", "o", "b">>),
   family_name |-> Str(<<"S", "m", "i", "t", "h">>), given_name |-> Str(<<"B", "o", "b">>),
   name |-> Str(<<"B", "o", "b", " ", "S", "m", "i", "t", "h">>),
   email |-> Str(<<"b", "@", "x">>), email_verified |-> ev]

EmptyPayload ==
  [sub |-> Undefined, preferred_username |-> Undefined, family_name |-> Undefined,
   given_name |-> Undefined, name |-> Undefined, email |-> Undefined,
   email_verified |-> Undefined]

Payloads == {FullPayload(ev) : ev \in EmailVerifiedValues}

(* what request.get() gives: the parsed body, or a rejection *)
Responses == {[ok |-> TRUE, body |-> p] : p \in Payloads} \cup {[ok |-> FALSE, body |-> EmptyPayload]}

Tokens == {<<"t", "1">>, <<"t", "2">>}

(* user.email_verified ? 'verified' : 'unverified' *)
emailVerificationState(v) == IF Truthy(v) THEN "verified" ELSE "unverified"

KeycloakUser(user, token) ==
  [id |-> user.sub,
   nickName |-> user.preferred_username,
   lastName |-> user.family_name,
   firstName |-> user.given_name,
   name |-> user.name,
   email |-> user.email,
   avatarUrl |-> "null",
   emailVerificationState |-> emailVerificationState(user.email_verified),
   original |-> user,
   token |-> [type |-> "bearer", token |-> token]]

NoUser == KeycloakUser(EmptyPayload, <<>>)

(* slip: the configured override is not consulted *)
userInfoTarget_field(cfg, drv) == Str(drv.userInfoUrl)

(* this.config.userInfoUrl ?? this.userInfoUrl *)
userInfoTarget(cfg, drv) == Nullish(cfg.userInfoUrl, Str(drv.userInfoUrl))

(* slip: a failed fetch is sent a second time *)
getUserInfo_retry(cfg, drv, token, cb, resp) ==
  LET request == getAuthenticatedRequest(userInfoTarget(cfg, drv), token)
      invoked == cb.k = "function"
      customized == IF invoked THEN Invoke(cb, request) ELSE request
  IN IF invoked /\ cb.throws
     THEN [outcome |-> "error", sent |-> <<>>, user |-> NoUser, invoked |-> invoked]
     ELSE IF resp.ok
     THEN [outcome |-> "ok", sent |-> <<Send(customized)>>,
           user |-> KeycloakUser(resp.body, token), invoked |-> invoked]
     ELSE [outcome |-> "error", sent |-> <<Send(customized), Send(customized)>>,
           user |-> NoUser, invoked |-> invoked]

(* slip: the customizer runs on the bare request, before the driver sets
   its headers and parse mode *)
getUserInfo_callbackFirst(cfg, drv, token, cb, resp) ==
  LET bare == httpClient(userInfoTarget(cfg, drv))
      invoked == cb.k = "function"
      customized == IF invoked THEN Invoke(cb, bare) ELSE bare
      request == parseAs(header(header(customized, "Authorization", BearerPrefix \o token),
                                "Accept", ApplicationJson), "json")
  IN IF invoked /\ cb.throws
     THEN [outcome |-> "error", sent |-> <<>>, user |-> NoUser, invoked |-> invoked]
     ELSE IF resp.ok
     THEN [outcome |-> "ok", sent |-> <<Send(request)>>,
           user |-> KeycloakUser(resp.body, token), invoked |-> invoked]
     ELSE [outcome |-> "error", sent |-> <<Send(request)>>, user |-> NoUser, invoked |-> invoked]

(* getUserInfo(token, callback) against the response resp *)
getUserInfo(cfg, drv, token, cb, resp) ==
  LET request == getAuthenticatedRequest(userInfoTarget(cfg, drv), token)
      invoked == cb.k = "function"
      customized == IF invoked THEN Invoke(cb, request) ELSE request
  IN IF invoked /\ cb.throws
     THEN [outcome |-> "error", sent |-> <<>>, user |-> NoUser, invoked |-> invoked]
     ELSE IF resp.ok
     THEN [outcome |-> "ok", sent |-> <<Send(customized)>>,
           user |-> KeycloakUser(resp.body, token), invoked |-> invoked]
     ELSE [outcome |-> "error", sent |-> <<Send(customized)>>, user |-> NoUser, invoked |-> invoked]

-----------------------------------------------------------------------------
(* The driver's public methods *)

(* Outcomes of the inherited accessToken(callback): it throws before any
   request (error or state mismatch on the callback request), throws after
   the token request was rejected, or returns the token the provider gave. *)
Exchanges ==
  { [ok |-> FALSE, token |-> <<>>, requests |-> 0],
    [ok |-> FALSE, token |-> <<>>, requests |-> 1] }
    \cup { [ok |-> TRUE, token |-> t, requests |-> 1] : t \in Tokens }

(* slip: any error on the callback request counts as a denial *)
accessDenied_anyError(err) == err.k = "string"

(* this.ctx.request.input('error') === 'user_denied' *)
accessDenied(err) == err = Str(UserDenied)

(* userFromToken(accessToken, callback) *)
userFromToken(cfg, drv, accessToken, cb, resp) ==
  LET r == getUserInfo(cfg, drv, accessToken, cb, resp) IN
  [op |-> "userFromToken", cb |-> cb, token |-> accessToken, outcome |-> r.outcome,
   sent |-> r.sent, tokenRequests |-> 0, user |-> r.user, invoked |-> r.invoked,
   body |-> resp.body, denied |-> FALSE]

(* user(callback): the inherited exchange, then getUserInfo with its token *)
user(cfg, drv, cb, exch, resp) ==
  IF ~exch.ok
  THEN [op |-> "user", cb |-> cb, token |-> exch.token, outcome |-> "error",
        sent |-> <<>>, tokenRequests |-> exch.requests, user |-> NoUser, invoked |-> FALSE,
        body |-> EmptyPayload, denied |-> FALSE]
  ELSE LET r == getUserInfo(cfg, drv, exch.token, cb, resp) IN
       [op |-> "user", cb |-> cb, token |-> exch.token, outcome |-> r.outcome,
        sent |-> r.sent, tokenRequests |-> exch.requests, user |-> r.user,
        invoked |-> r.invoked, body |-> resp.body, denied |-> FALSE]

NoCall ==
  [op |-> "none", cb |-> NoCallback, token |-> <<>>, outcome |-> "none", sent |-> <<>>,
   tokenRequests |-> 0, user |-> NoUser, invoked |-> FALSE, body |-> EmptyPayload,
   denied |-> FALSE]

-----------------------------------------------------------------------------
(* State machine: one incoming HTTP request, one driver instance *)

Init ==
  /\ config \in KeycloakConfig
  /\ input \in ErrorInputs
  /\ cookie \in Cookies
  /\ cookieReads = 0
  /\ cookieClears = 0
  /\ extended = FALSE
  /\ driver = [status |-> "none", error |-> "", authorizeUrl |-> <<>>, accessTokenUrl |-> <<>>,
               userInfoUrl |-> <<>>, stateCookieValue |-> "none", log |-> <<>>]
  /\ calls = 0
  /\ last = NoCall

(* KeycloakProvider.boot: register the factory under 'keycloak' *)
Boot ==
  /\ ~extended
  /\ driver.status = "none"
  /\ extended' = TRUE
  /\ UNCHANGED <<config, input, cookie, cookieReads, cookieClears, driver, calls, last>>

Construct ==
  /\ driver.status = "none"
  /\ LET d == KeycloakDriver(config, cookie) IN
     /\ driver' = [status |-> d.status, error |-> d.error, authorizeUrl |-> d.authorizeUrl,
                   accessTokenUrl |-> d.accessTokenUrl, userInfoUrl |-> d.userInfoUrl,
                   stateCookieValue |-> d.stateCookieValue, log |-> d.log]
     /\ cookie' = d.cookie
     /\ cookieReads' = cookieReads + d.reads
     /\ cookieClears' = cookieClears + d.clears
  /\ UNCHANGED <<config, input, extended, calls, last>>

(* the factory registered by the provider: new KeycloakDriver(ctx, config) *)
ExtendFactory == extended /\ Construct

(* KeycloakService(config)(ctx): new KeycloakDriver(ctx, config) *)
KeycloakService == ~extended /\ Construct

AccessDeniedCall ==
  /\ driver.status = "constructed"
  /\ calls < MaxCalls
  /\ calls' = calls + 1
  /\ last' = [NoCall EXCEPT !.op = "accessDenied", !.denied = accessDenied(input)]
  /\ UNCHANGED <<config, input, cookie, cookieReads, cookieClears, extended, driver>>

UserFromTokenCall ==
  /\ driver.status = "constructed"
  /\ calls < MaxCalls
  /\ calls' = calls + 1
  /\ \E t \in Tokens, cb \in Callbacks, resp \in Responses :
       last' = userFromToken(config, driver, t, cb, resp)
  /\ UNCHANGED <<config, input, cookie, cookieReads, cookieClears, extended, driver>>

UserCall ==
  /\ driver.status = "constructed"
  /\ calls < MaxCalls
  /\ calls' = calls + 1
  /\ \E cb \in Callbacks, exch \in Exchanges, resp \in Responses :
       last' = user(config, driver, cb, exch, resp)
  /\ UNCHANGED <<config, input, cookie, cookieReads, cookieClears, extended, driver>>

Next ==
  \/ Boot
  \/ ExtendFactory
  \/ KeycloakService
  \/ AccessDeniedCall
  \/ UserFromTokenCall
  \/ UserCall

Spec == Init /\ [][Next]_vars

-----------------------------------------------------------------------------
(* Properties *)

Constructed == driver.status = "constructed"
Failed == driver.status = "failed"
Fetching == last.op \in {"user", "userFromToken"}

(* a configuration value that was not given (undefined) *)
Absent(x) == x.k = "undefined"
(* a configuration value that was not given or is the empty string *)
Missing(x) == x.k = "undefined" \/ (x.k = "string" /\ x.v = <<>>)

RECURSIVE Substituted(_, _, _)
(* the template read left to right, each {{realm}} giving way to the realm
   text as it is and each {{action}} to the action *)
Substituted(t, realm, action) ==
  IF t = <<>> THEN <<>>
  ELSE IF StartsAt(t, RealmPlaceholder, 1)
    THEN realm \o Substituted(SubSeq(t, Len(RealmPlaceholder) + 1, Len(t)), realm, action)
  ELSE IF StartsAt(t, ActionPlaceholder, 1)
    THEN action \o Substituted(SubSeq(t, Len(ActionPlaceholder) + 1, Len(t)), realm, action)
  ELSE <<Head(t)>> \o Substituted(Tail(t), realm, action)

(* C1: a constructed driver whose template holds both placeholders has the
   three URLs equal to the template with every {{realm}} replaced by the
   realm text unchanged and every {{action}} by auth, token, userinfo. *)
C1_TemplateSubstituted ==
  (/\ Constructed
   /\ Contains(config.keycloakUrl.v, RealmPlaceholder)
   /\ Contains(config.keycloakUrl.v, ActionPlaceholder))
  => /\ driver.authorizeUrl = Substituted(config.keycloakUrl.v, config.realm.v, AuthAction)
     /\ driver.accessTokenUrl = Substituted(config.keycloakUrl.v, config.realm.v, TokenAction)
     /\ driver.userInfoUrl = Substituted(config.keycloakUrl.v, config.realm.v, UserInfoAction)

(* C2 as stated: construction fails exactly when realm or keycloakUrl is
   absent, naming realm first; with both present it succeeds. *)
C2_FailsIffAbsent ==
  driver.status # "none"
  => /\ Failed <=> (Absent(config.realm) \/ Absent(config.keycloakUrl))
     /\ Absent(config.realm) => driver.error = RealmError
     /\ (~Absent(config.realm) /\ Absent(config.keycloakUrl)) => driver.error = KeycloakUrlError

(* C2 amended: construction fails exactly when realm or keycloakUrl is
   absent or the empty string; a missing realm is named first, a missing
   keycloakUrl only when the realm is there; no instance exists with either
   missing, whatever endpoint overrides were given. *)
C2_FailsIffMissing ==
  driver.status # "none"
  => /\ Failed <=> (Missing(config.realm) \/ Missing(config.keycloakUrl))
     /\ Missing(config.realm) => driver.error = RealmError
     /\ (~Missing(config.realm) /\ Missing(config.keycloakUrl)) => driver.error = KeycloakUrlError
     /\ Constructed => driver.error = ""

C2_Witness ==
  /\ Failed
  /\ config.realm = Str(<<>>)
  /\ Missing(config.keycloakUrl)
  /\ config.userInfoUrl = Str(OverrideUrl)
  /\ driver.error = RealmError

(* C3: a successful user()/userFromToken() returns the payload's fields
   under the framework's names, avatarUrl null, the raw payload, the bearer
   token T which is the token in the request's Authorization header, and
   emailVerificationState 'verified' exactly when email_verified is true. *)
C3_UserRecord ==
  (Fetching /\ last.outcome = "ok")
  => /\ last.user.id = last.body.sub
     /\ last.user.nickName = last.body.preferred_username
     /\ last.user.firstName = last.body.given_name
     /\ last.user.lastName = last.body.family_name
     /\ last.user.name = last.body.name
     /\ last.user.email = last.body.email
     /\ last.user.avatarUrl = "null"
     /\ last.user.original = last.body
     /\ last.user.token = [type |-> "bearer", token |-> last.token]
     /\ last.sent[1].headers["Authorization"] = Str(BearerPrefix \o last.user.token.token)
     /\ last.user.emailVerificationState =
          (IF last.body.email_verified = Bool(TRUE) THEN "verified" ELSE "unverified")

(* C4: every user-info request goes to the configured userInfoUrl when one
   is given, and to the URL derived from the template otherwise. *)
C4_OverrideTargeted ==
  \A i \in 1..Len(last.sent) :
    last.sent[i].url =
      (IF Absent(config.userInfoUrl) THEN Str(driver.userInfoUrl) ELSE config.userInfoUrl)

C4_Witness ==
  /\ Len(last.sent) = 1
  /\ config.userInfoUrl = Str(OverrideUrl)
  /\ last.sent[1].url = Str(OverrideUrl)
  /\ driver.userInfoUrl # OverrideUrl

(* C5 as stated: after construction each endpoint URL of the driver is the
   configured override when there is one, the derived URL otherwise. *)
C5_FieldsTakeOverrides ==
  Constructed
  => /\ driver.authorizeUrl =
          (IF Absent(config.authorizeUrl) THEN buildKeycloakUrl(config, AuthAction)
           ELSE config.authorizeUrl.v)
     /\ driver.accessTokenUrl =
          (IF Absent(config.accessTokenUrl) THEN buildKeycloakUrl(config, TokenAction)
           ELSE config.accessTokenUrl.v)
     /\ driver.userInfoUrl =
          (IF Absent(config.userInfoUrl) THEN buildKeycloakUrl(config, UserInfoAction)
           ELSE config.userInfoUrl.v)

(* C5 amended: after construction the driver's three endpoint URL fields
   are the URLs built from the template, whether or not the configuration
   gives overrides; for the plain template and realm they read h/r1/p/auth,
   h/r1/p/token and h/r1/p/userinfo. *)
C5_FieldsAlwaysDerived ==
  Constructed
  => /\ driver.authorizeUrl = buildKeycloakUrl(config, AuthAction)
     /\ driver.accessTokenUrl = buildKeycloakUrl(config, TokenAction)
     /\ driver.userInfoUrl = buildKeycloakUrl(config, UserInfoAction)
     /\ (config.keycloakUrl = Str(PlainTemplate) /\ config.realm = Str(PlainRealm))
        => /\ driver.authorizeUrl = <<"h", "/", "r", "1", "/", "p", "/">> \o AuthAction
           /\ driver.accessTokenUrl = <<"h", "/", "r", "1", "/", "p", "/">> \o TokenAction
           /\ driver.userInfoUrl = <<"h", "/", "r", "1", "/", "p", "/">> \o UserInfoAction

C5_Witness ==
  /\ Constructed
  /\ config.keycloakUrl = Str(PlainTemplate)
  /\ config.realm = Str(PlainRealm)
  /\ config.authorizeUrl = Str(OverrideUrl)
  /\ driver.authorizeUrl # OverrideUrl

(* C6 as stated: every user-info request, with or without a customizer,
   leaves with Authorization 'Bearer <token>' and Accept 'application/json'. *)
C6_HeadersAlways ==
  \A i \in 1..Len(last.sent) :
    /\ last.sent[i].headers["Authorization"] = Str(BearerPrefix \o last.token)
    /\ last.sent[i].headers["Accept"] = Str(ApplicationJson)

Sets(cb, key) == cb.k = "function" /\ \E j \in 1..Len(cb.ops) : cb.ops[j].key = key

(* C6 amended: every user-info request leaves with Authorization
   'Bearer <token>' and Accept 'application/json', except for a header the
   customizer of that call set itself. *)
C6_HeadersUnlessCustomized ==
  \A i \in 1..Len(last.sent) :
    /\ ~Sets(last.cb, "Authorization")
       => last.sent[i].headers["Authorization"] = Str(BearerPrefix \o last.token)
    /\ ~Sets(last.cb, "Accept")
       => last.sent[i].headers["Accept"] = Str(ApplicationJson)

C6_Witness ==
  /\ Len(last.sent) = 1
  /\ last.cb.ops = <<SetAuthorization>>
  /\ last.sent[1].headers["Accept"] = Str(ApplicationJson)
  /\ last.sent[1].headers["Authorization"] # Str(BearerPrefix \o last.token)

(* C7: accessDenied() is true exactly when the request's error input is the
   string user_denied, and the call changes nothing of the driver, the
   configuration, the request or the cookie. *)
C7_AccessDenied ==
  [][(calls' # calls /\ last'.op = "accessDenied")
     => /\ last'.denied <=> (input.k = "string" /\ input.v = UserDenied)
        /\ UNCHANGED <<config, input, cookie, cookieReads, cookieClears, extended, driver>>]_vars

C7_Witness == last.op = "accessDenied" /\ last.denied /\ input = Str(UserDenied)

C7_WitnessOther == last.op = "accessDenied" /\ ~last.denied /\ input.k = "string"

(* C8 as stated: each user()/userFromToken() call issues exactly one
   outbound HTTP request, whether it succeeds or fails. *)
C8_ExactlyOneRequest ==
  Fetching => Len(last.sent) + last.tokenRequests = 1

(* the call got as far as request.get() *)
ReachedSend ==
  /\ last.op = "userFromToken" \/ last.token # <<>>
  /\ ~(last.cb.k = "function" /\ last.cb.throws)

(* C8 amended: no call issues more than one user-info request and none is
   retried; userFromToken() issues no other request; the user-info request
   is issued exactly once when the call reaches the send, that is for
   user() when the inherited token exchange returned a token, and for both
   when the customizer did not throw, and not at all otherwise. *)
C8_AtMostOneFetch ==
  Fetching
  => /\ Len(last.sent) <= 1
     /\ Len(last.sent) = 1 <=> ReachedSend
     /\ last.op = "userFromToken" => last.tokenRequests = 0

C8_Witness ==
  /\ last.op = "userFromToken"
  /\ last.outcome = "error"
  /\ Len(last.sent) = 1

(* C9: a customizer passed to the call is invoked on the user-info request
   after the driver set Authorization, Accept and the parse mode and before
   the request is sent, so that each header it sets leaves with the value it
   set last; without a customizer none is invoked. *)
C9_CustomizerOrder ==
  \A i \in 1..Len(last.sent) :
    LET log == last.sent[i].log
        ops == last.cb.ops
    IN /\ log[1] = <<"header", "Authorization">>
       /\ log[2] = <<"header", "Accept">>
       /\ log[3] = <<"parseAs", "json">>
       /\ log[Len(log)] = <<"get">>
       /\ last.sent[i].parse = "json"
       /\ IF last.cb.k = "function"
          THEN /\ last.invoked
               /\ log[4] = <<"callback">>
               /\ Len(log) = 5 + Len(ops)
               /\ \A j \in 1..Len(ops) :
                    /\ log[4 + j] = <<"header", ops[j].key>>
                    /\ (\A m \in (j + 1)..Len(ops) : ops[m].key # ops[j].key)
                       => last.sent[i].headers[ops[j].key] = Str(ops[j].value)
          ELSE /\ ~last.invoked
               /\ Len(log) = 4

C9_Witness ==
  /\ Len(last.sent) = 1
  /\ last.cb.ops = <<SetAccept, SetAuthorization>>
  /\ last.sent[1].headers["Authorization"] = Str(SetAuthorization.value)
  /\ last.sent[1].headers["Accept"] = Str(SetAccept.value)

(* C10: a constructed driver has read and cleared the state cookie exactly
   once, after the three URLs were set and as the constructor's last step;
   a construction that failed on a missing realm or keycloakUrl has neither
   read nor cleared it. *)
C10_StateLoadedOnce ==
  /\ Constructed
     => /\ cookieReads = 1
        /\ cookieClears = 1
        /\ cookie = "none"
        /\ driver.log = <<<<"super">>, <<"authorizeUrl">>, <<"accessTokenUrl">>,
                          <<"userInfoUrl">>, <<"readCookie">>, <<"clearCookie">>>>
  /\ Failed
     => /\ cookieReads = 0
        /\ cookieClears = 0
        /\ driver.stateCookieValue = "none"
        /\ \A i \in 1..Len(driver.log) :
             driver.log[i] \notin {<<"readCookie">>, <<"clearCookie">>}
  /\ driver.status = "none" => (cookieReads = 0 /\ cookieClears = 0)

C10_Witness ==
  /\ Constructed
  /\ extended
  /\ driver.stateCookieValue = "s1"
  /\ cookie = "none"
  /\ cookieReads = 1

C10_WitnessFailed == Failed /\ cookie = "s1" /\ cookieReads = 0

====
